---------------------------- MODULE Spec2Model ----------------------------
(***************************************************************************)
(* Order lifecycle of the trading bot: the spot engine (src/bot.py) and    *)
(* the futures engine (src/futures_bot.py).                                *)
(*                                                                         *)
(* One behaviour is one run of main(): an endless sequence of step()       *)
(* calls, each a fixed sequence of phases over the stored TradingCall      *)
(* rows.  Every gateway call and every store write may fail; an action     *)
(* draws the outcome from the outcomes that differ in effect.              *)
(*                                                                         *)
(* Units.  Time is in hours.  Prices are integers in units of              *)
(* 10^-UnitDigits of the quote currency, so that format_price's            *)
(* truncation to the tick precision is visible.                            *)
(*                                                                         *)
(* The venue.  An order's status on the exchange only changes NEW ->       *)
(* FILLED or NEW -> CANCELED.  The engine sees the venue only through its  *)
(* gateway calls, so a change is drawn at the call that observes it; an    *)
(* observation the engine discards leaves the change to a later call.      *)
(* venue[c].open is the status of the last entry order accepted for c,     *)
(* whether or not a stored row holds it.                                   *)
(*                                                                         *)
(* The loops of step() take the rows in the order of their ids.            *)
(*                                                                         *)
(* The store.  session.commit() either persists the row or raises and      *)
(* leaves the stored row as it was.                                        *)
(***************************************************************************)
EXTENDS Integers, FiniteSets, Sequences, TLC

\* ------------------------------------------------------------------ bounds
NumCalls == 2
MaxTicks == 2
TickHours == 50

\* ------------------------------------------------------- program constants
ORDER_SIZE == 100
ORDER_EXPIRY_TIME_HOURS == 48
FUTURES_ORDER_EXPIRY_TIME_HOURS == 24
LOOKBACK_HOURS == 12
TARGET_NUM == 3

Calls == 1..NumCalls
MaxNow == MaxTicks * TickHours

\* exponent of the price unit: a price p stands for p * 10^-UnitDigits
UnitDigits == 2
\* tick precisions exchange_info can report (digits after the point)
Precisions == {1, 2}
\* prices and balances the gateway reports
Prices == {15, 35, 45, 62, 70}
Balances == {100, 150, 250}

\* the levels of a call (the parser's output; the same for every call)
entry == [i \in 0..1 |-> IF i = 0 THEN 30 ELSE 40]
stop_loss == 20
targets == [i \in 0..5 |-> 45 + 5 * i + (IF i = 3 THEN 5 ELSE 0)]

\* round_down_to_precision(number, precision) on fixed-point prices
round_down_to_precision(number, precision) ==
  LET unit == 10 ^ (UnitDigits - precision)
  IN (number \div unit) * unit

\* format_price(price, exchange_info): precision is the tick precision
format_price(price, precision) == round_down_to_precision(price, precision)

NoOrder == [status |-> "null", time |-> 0, type |-> "null"]
IsNone(o) == o.status = "null"

Max(S) == CHOOSE m \in S : \A x \in S : x <= m

VARIABLES
  engine,       \* "spot" | "futures": which main() runs
  orRaises,     \* futures: the or of two clauses in get_unfilled_tpsl_orders raises
  calls,        \* the Call Store: one TradingCall row per call
  venue,        \* the exchange: status of each stored order of a call
  now,          \* datetime.now(), hours
  pc,           \* position inside step(); "sleep" between steps
  todo,         \* calls the current phase has still to process
  cur,          \* futures: the call and the leg a handler is working on
  found,        \* spot: calls filter_need_to_stop_loss has selected so far
  stepBalance,  \* balance read in this step (-1: not read)
  stepEntries,  \* entry orders submitted (new_order called) in this step
  last          \* the gateway traffic and outcome of the last operation

vars == <<engine, orRaises, calls, venue, now, pc, todo, cur, found,
          stepBalance, stepEntries, last>>

locals == <<found, stepBalance, stepEntries>>

NoCur == [call |-> 0, stage |-> "none"]

NoEvent == [op |-> "none", call |-> 0, price |-> -1, target |-> -1,
            type |-> "none", placed |-> FALSE, status |-> "none",
            cancel |-> "none", raised |-> FALSE, stored |-> FALSE]

Event(op, c) == [NoEvent EXCEPT !.op = op, !.call = c]

\* what the venue can report for an order last known there as s
VenueNext(s) == IF s = "NEW" THEN {"NEW", "FILLED", "CANCELED"} ELSE {s}

NoVenue == [open |-> "none", close |-> "none", tp |-> "none", sl |-> "none"]

NewCall(side, bragged) ==
  [side |-> side, bragged |-> bragged, timestamp |-> 0,
   open_order |-> NoOrder, close_order |-> NoOrder,
   take_profit_order |-> NoOrder, stop_loss_order |-> NoOrder,
   completed |-> FALSE, reason |-> "null"]

\* the rows the signal parser can have written
Profiles == {NewCall("BUY", FALSE), NewCall("SELL", FALSE), NewCall("BUY", TRUE)}

Init ==
  /\ engine \in {"spot", "futures"}
  /\ orRaises \in (IF engine = "futures" THEN BOOLEAN ELSE {FALSE})
  /\ \E c0 \in Calls, row \in Profiles :
       calls = [c \in Calls |-> IF c = c0 THEN row ELSE NewCall("BUY", FALSE)]
  /\ venue = [c \in Calls |-> NoVenue]
  /\ now = 0
  /\ pc = "sleep"
  /\ todo = {}
  /\ cur = NoCur
  /\ found = {}
  /\ stepBalance = -1
  /\ stepEntries = 0
  /\ last = NoEvent

\* ------------------------------------------------------------ store queries

\* a fetch that passes over a call the venue holds an entry order for
fetch_unseen_trades_without_venue_order(limit) ==
  LET S == {c \in Calls : /\ IsNone(calls[c].open_order)
                          /\ venue[c].open = "none"
                          /\ calls[c].timestamp >= now - LOOKBACK_HOURS
                          /\ ~calls[c].bragged}
      TopK[k \in 0..NumCalls, T \in SUBSET Calls] ==
        IF k = 0 \/ T = {} THEN {}
        ELSE {Max(T)} \cup TopK[k - 1, T \ {Max(T)}]
  IN TopK[IF limit > NumCalls THEN NumCalls ELSE limit, S]

\* a fetch that takes the oldest calls first
fetch_unseen_trades_oldest_first(limit) ==
  LET S == {c \in Calls : /\ IsNone(calls[c].open_order)
                          /\ calls[c].timestamp >= now - LOOKBACK_HOURS
                          /\ ~calls[c].bragged}
      Min(T) == CHOOSE m \in T : \A x \in T : m <= x
      BottomK[k \in 0..NumCalls, T \in SUBSET Calls] ==
        IF k = 0 \/ T = {} THEN {}
        ELSE {Min(T)} \cup BottomK[k - 1, T \ {Min(T)}]
  IN BottomK[IF limit > NumCalls THEN NumCalls ELSE limit, S]

\* a fetch that forgets the bragged filter and the lookback window
fetch_trades_without_order(limit) ==
  LET S == {c \in Calls : IsNone(calls[c].open_order)}
      TopK[k \in 0..NumCalls, T \in SUBSET Calls] ==
        IF k = 0 \/ T = {} THEN {}
        ELSE {Max(T)} \cup TopK[k - 1, T \ {Max(T)}]
  IN TopK[IF limit > NumCalls THEN NumCalls ELSE limit, S]

\* fetch_unseen_trades / fetch_unseen_calls (latest_first = True)
fetch_unseen_trades(limit) ==
  LET S == {c \in Calls : /\ IsNone(calls[c].open_order)
                          /\ calls[c].timestamp >= now - LOOKBACK_HOURS
                          /\ ~calls[c].bragged}
      TopK[k \in 0..NumCalls, T \in SUBSET Calls] ==
        IF k = 0 \/ T = {} THEN {}
        ELSE {Max(T)} \cup TopK[k - 1, T \ {Max(T)}]
  IN TopK[IF limit > NumCalls THEN NumCalls ELSE limit, S]

get_pending_opening_limit_orders ==
  {c \in Calls : /\ ~IsNone(calls[c].open_order)
                 /\ IsNone(calls[c].close_order)
                 /\ ~calls[c].completed}

\* a query that returns every call that is not completed
get_calls_not_completed ==
  {c \in Calls : ~calls[c].completed}

\* a query that forgets the completed filter
get_closing_limit_orders_of_any_call ==
  {c \in Calls : ~IsNone(calls[c].close_order)}

get_pending_closing_limit_orders ==
  {c \in Calls : /\ ~IsNone(calls[c].close_order)
                 /\ ~calls[c].completed}

\* a filter that keeps every pending entry order
filter_any_opening_orders(trades) == trades

filter_filled_opening_orders(trades) ==
  {c \in trades : calls[c].open_order.status = "FILLED"}

filter_expired_open_orders(trades, max_expiry_hours) ==
  {c \in trades : /\ calls[c].open_order.status = "NEW"
                  /\ now - calls[c].open_order.time > max_expiry_hours}

filter_expired_close_orders(trades, max_expiry_hours) ==
  {c \in trades : /\ calls[c].close_order.status = "NEW"
                  /\ now - calls[c].close_order.time > max_expiry_hours}

get_unfilled_opening_orders ==
  {c \in Calls : /\ ~IsNone(calls[c].open_order)
                 /\ ~calls[c].completed
                 /\ calls[c].open_order.status # "FILLED"}

\* ------------------------------------------------------------- the scheduler

\* the locals of step() are gone once it has returned or raised
StepLocalsGone ==
  /\ found' = {}
  /\ stepBalance' = -1
  /\ stepEntries' = 0

\* an exception that ends the loop of main()
AbortEndsLoop(ev) ==
  /\ pc' = "exit"
  /\ todo' = {}
  /\ cur' = NoCur
  /\ last' = [ev EXCEPT !.raised = TRUE]
  /\ StepLocalsGone

\* an exception leaves step(): main() logs it and sleeps
Abort(ev) ==
  /\ pc' = "sleep"
  /\ todo' = {}
  /\ cur' = NoCur
  /\ last' = [ev EXCEPT !.raised = TRUE]
  /\ StepLocalsGone

\* a handler has finished with call c; the phase goes on
Done(c, ev) ==
  /\ pc' = pc
  /\ todo' = todo \ {c}
  /\ cur' = NoCur
  /\ last' = ev
  /\ UNCHANGED locals

\* main(): time.sleep, then step() is called
StartStep ==
  /\ pc = "sleep"
  /\ \E dt \in {0, TickHours} :
       /\ now + dt <= MaxNow
       /\ now' = now + dt
  /\ pc' = "start"
  /\ todo' = {}
  /\ cur' = NoCur
  /\ last' = Event("step", 0)
  /\ UNCHANGED locals
  /\ UNCHANGED <<engine, orRaises, calls, venue>>

\* ------------------------------------------------------------ status refresh

\* update_opening_order_status(trade), the same in both engines
update_opening_order_status(c) ==
  /\ pc = "update_open"
  /\ todo # {}
  /\ c = Max(todo)
  /\ LET ev == Event("update_opening_order_status", c)
     IN \/ /\ Abort(ev)                       \* get_order raises
           /\ UNCHANGED <<calls, venue>>
        \/ \E s \in VenueNext(venue[c].open) :
             IF s # calls[c].open_order.status
                THEN \/ /\ venue' = [venue EXCEPT ![c].open = s]
                        /\ calls' = [calls EXCEPT ![c].open_order.status = s]
                        /\ Done(c, [ev EXCEPT !.status = s, !.stored = TRUE])
                     \/ /\ Abort(ev)   \* commit raises
                        /\ UNCHANGED <<calls, venue>>
                ELSE /\ UNCHANGED <<calls, venue>>
                     /\ Done(c, [ev EXCEPT !.status = s])
  /\ UNCHANGED <<engine, orRaises, now>>

\* a refresh that forgets the stored flag
ClosedFromStatusAlone(completed, status) == status = "FILLED"

\* the closed flag a status refresh stores
ClosedAfterRefresh(completed, status) == completed \/ status = "FILLED"

\* update_closing_order_status(trade)
update_closing_order_status(c) ==
  /\ pc = "update_close"
  /\ todo # {}
  /\ c = Max(todo)
  /\ LET ev == Event("update_closing_order_status", c)
     IN \/ /\ Abort(ev)                       \* get_order raises
           /\ UNCHANGED <<calls, venue>>
        \/ \E s \in VenueNext(venue[c].close) :
             IF s # calls[c].close_order.status
                THEN \/ /\ venue' = [venue EXCEPT ![c].close = s]
                        /\ calls' = [calls EXCEPT
                               ![c].close_order.status = s,
                               ![c].completed =
                                  ClosedAfterRefresh(calls[c].completed, s)]
                        /\ Done(c, [ev EXCEPT !.status = s, !.stored = TRUE])
                     \/ /\ Abort(ev)   \* commit raises
                        /\ UNCHANGED <<calls, venue>>
                ELSE /\ UNCHANGED <<calls, venue>>
                     /\ Done(c, [ev EXCEPT !.status = s])
  /\ UNCHANGED <<engine, orRaises, now>>

\* ------------------------------------------------------------ exit placement

\* the choice of send_close_order the other way round
CloseOrderTypeSwapped(current_price, target) ==
  IF current_price > target THEN "LIMIT" ELSE "MARKET"

\* the order type send_close_order chooses
CloseOrderType(current_price, target) ==
  IF current_price > target THEN "MARKET" ELSE "LIMIT"

\* what new_order answers for an accepted order
ResponseStatus(type) == IF type = "MARKET" THEN {"FILLED"} ELSE {"NEW", "FILLED"}

\* send_close_order(trade)
send_close_order(c) ==
  /\ pc = "send_close"
  /\ todo # {}
  /\ c = Max(todo)
  /\ \E current_price \in Prices, prec \in Precisions :
       LET target == format_price(targets[TARGET_NUM], prec)
           type == CloseOrderType(current_price, target)
           ev == [Event("send_close_order", c) EXCEPT
                    !.price = current_price, !.target = target]
           sent == [ev EXCEPT !.type = type, !.placed = TRUE]
       IN \/ /\ Done(c, ev)                   \* a gateway call raises
             /\ UNCHANGED <<calls, venue>>
          \/ \E s \in ResponseStatus(type) :
               \/ /\ Done(c, [sent EXCEPT !.status = s])   \* commit raises
                  /\ UNCHANGED <<calls, venue>>
               \/ /\ calls' = [calls EXCEPT ![c].close_order =
                                 [status |-> s, time |-> now, type |-> type]]
                  /\ venue' = [venue EXCEPT ![c].close = s]
                  /\ Done(c, [sent EXCEPT !.status = s, !.stored = TRUE])
  /\ UNCHANGED <<engine, orRaises, now>>

\* ------------------------------------------------------------------- expiry

\* cancel_order on the venue: accepted only for an order that is still NEW
CancelOutcomes(s) ==
  {[ok |-> FALSE, status |-> s]}
    \cup (IF s = "NEW" THEN {[ok |-> TRUE, status |-> "CANCELED"]} ELSE {})

\* what send_cancel_open_orders stores once cancel_order has returned
ClosedAsExpiredEntry(row) ==
  [row EXCEPT !.completed = TRUE, !.reason = "Open Order took too long to fill"]

\* send_cancel_open_orders(trades): one trade of the loop
send_cancel_open_order(c) ==
  /\ engine = "spot"
  /\ pc = "cancel_open"
  /\ todo # {}
  /\ c = Max(todo)
  /\ \E r \in CancelOutcomes(venue[c].open) :
       LET ev == [Event("send_cancel_open_orders", c) EXCEPT
                    !.status = r.status,
                    !.cancel = IF r.ok THEN "ok" ELSE "raised"]
       IN /\ venue' = [venue EXCEPT ![c].open = r.status]
          /\ \/ /\ r.ok
                /\ calls' = [calls EXCEPT ![c] = ClosedAsExpiredEntry(calls[c])]
                /\ Done(c, [ev EXCEPT !.stored = TRUE])
             \/ /\ UNCHANGED calls            \* cancel_order or commit raises
                /\ Done(c, ev)
  /\ UNCHANGED <<engine, orRaises, now>>

\* the reason step() passes to send_cancel_close_orders in each phase
CloseReason == IF pc = "cancel_close" THEN "Close order took too long to fill"
               ELSE "stop loss"

\* send_cancel_close_orders(trades, reason): one trade of the loop
send_cancel_close_order(c) ==
  /\ pc \in {"cancel_close", "stop_loss"}
  /\ todo # {}
  /\ c = Max(todo)
  /\ \E r \in CancelOutcomes(venue[c].close), m \in BOOLEAN :
       LET ev == [Event("send_cancel_close_orders", c) EXCEPT
                    !.status = r.status, !.placed = m,
                    !.cancel = IF r.ok THEN "ok" ELSE "raised",
                    !.type = IF m THEN "MARKET" ELSE "none"]
       IN /\ venue' = [venue EXCEPT ![c].close = r.status]
          /\ \/ /\ m
                /\ calls' = [calls EXCEPT ![c].completed = TRUE,
                                          ![c].reason = CloseReason]
                /\ Done(c, [ev EXCEPT !.stored = TRUE])
             \/ /\ UNCHANGED calls            \* new_order or commit raises
                /\ Done(c, ev)
  /\ UNCHANGED <<engine, orRaises, now>>

\* --------------------------------------------------------------- stop loss

\* the condition of filter_need_to_stop_loss
NeedToStopLoss(current_price) == current_price < stop_loss

\* filter_need_to_stop_loss(trades): one trade of the comprehension
filter_need_to_stop_loss(c) ==
  /\ pc = "stop_loss_filter"
  /\ todo # {}
  /\ c = Max(todo)
  /\ LET ev == Event("filter_need_to_stop_loss", c)
     IN \/ Abort(ev)                          \* avg_price raises
        \/ \E current_price \in Prices :
             /\ found' = IF NeedToStopLoss(current_price)
                         THEN found \cup {c} ELSE found
             /\ todo' = todo \ {c}
             /\ pc' = pc
             /\ cur' = NoCur
             /\ last' = [ev EXCEPT !.price = current_price]
             /\ UNCHANGED <<stepBalance, stepEntries>>
  /\ UNCHANGED <<engine, orRaises, calls, venue, now>>

\* ------------------------------------------------------------- new entries

\* a limit of one call more than the balance pays for
EntryLimitPlusOne(account_balance) == account_balance \div ORDER_SIZE + 1

\* the limit step() passes to fetch_unseen_trades
EntryLimit(account_balance) == account_balance \div ORDER_SIZE

\* the balance test of step()
EnoughBalance(account_balance) == account_balance > ORDER_SIZE

\* step(): account(), the balance test, fetch_unseen_trades
ReadBalance ==
  /\ pc = "account"
  /\ LET ev == Event("account", 0)
     IN \/ Abort(ev)                          \* account() raises
        \/ \E account_balance \in Balances :
             /\ last' = ev
             /\ cur' = NoCur
             /\ IF EnoughBalance(account_balance)
                THEN /\ todo' = fetch_unseen_trades(EntryLimit(account_balance))
                     /\ pc' = "entries"
                     /\ stepBalance' = account_balance
                     /\ UNCHANGED <<found, stepEntries>>
                ELSE /\ todo' = {}
                     /\ pc' = "sleep"
                     /\ StepLocalsGone
  /\ UNCHANGED <<engine, orRaises, calls, venue, now>>

\* the test of filter_viable_trades (spot)
Viable(current_price) ==
  ~(current_price < stop_loss \/ current_price > targets[2])

\* new_order has been called for an entry order
EntrySubmitted ==
  /\ stepEntries' = stepEntries + 1
  /\ UNCHANGED <<found, stepBalance>>

\* a guard that forgets the side
OpenOrderGuardAnySide(row) == IsNone(row.open_order)

\* the guard of send_open_order
OpenOrderGuard(row) == IsNone(row.open_order) /\ row.side = "BUY"

\* filter_viable_trades + send_open_order: one trade of send_open_orders
send_open_order(c) ==
  /\ engine = "spot"
  /\ pc = "entries"
  /\ todo # {}
  /\ c = Max(todo)
  /\ LET ev == Event("send_open_order", c)
         go(e) == pc' = pc /\ todo' = todo \ {c} /\ cur' = NoCur /\ last' = e
     IN \/ /\ Abort(ev)                       \* avg_price raises
           /\ UNCHANGED <<calls, venue>>
        \/ \E current_price \in Prices :
             LET evp == [ev EXCEPT !.price = current_price]
                 sent == [evp EXCEPT !.placed = TRUE, !.type = "LIMIT"]
             IN IF ~Viable(current_price) \/ ~OpenOrderGuard(calls[c])
                THEN /\ go(evp)
                     /\ UNCHANGED <<calls, venue>>
                     /\ UNCHANGED locals
                ELSE \/ /\ go(evp)            \* exchange_info raises
                        /\ UNCHANGED <<calls, venue>>
                        /\ UNCHANGED locals
                     \/ /\ go(evp)            \* new_order raises
                        /\ EntrySubmitted
                        /\ UNCHANGED <<calls, venue>>
                     \/ /\ go(sent)           \* get_order or commit raises
                        /\ EntrySubmitted
                        /\ venue' = [venue EXCEPT ![c].open = "NEW"]
                        /\ UNCHANGED calls
                     \/ \E s \in VenueNext("NEW") :
                          /\ go([sent EXCEPT !.status = s, !.stored = TRUE])
                          /\ EntrySubmitted
                          /\ calls' = [calls EXCEPT ![c].open_order =
                                         [status |-> s, time |-> now,
                                          type |-> "LIMIT"]]
                          /\ venue' = [venue EXCEPT ![c].open = s]
  /\ UNCHANGED <<engine, orRaises, now>>

\* step() returns
EndStep ==
  /\ pc = "entries"
  /\ todo = {}
  /\ cur = NoCur
  /\ pc' = "sleep"
  /\ last' = Event("return", 0)
  /\ StepLocalsGone
  /\ UNCHANGED <<engine, orRaises, calls, venue, now, todo, cur>>

\* ------------------------------------------------- futures: status refresh

\* rows of the query of get_unfilled_tpsl_orders: of `a or b` it keeps a
TpslRows ==
  {c \in Calls : ~IsNone(calls[c].take_profit_order) /\ ~calls[c].completed}

\* get_unfilled_tpsl_orders raises: the or of the two clauses, or a subscript
\* of an order that is None
TpslRaises ==
  \/ orRaises
  \/ \E c \in TpslRows :
       \/ IsNone(calls[c].open_order)
       \/ /\ calls[c].open_order.status = "FILLED"
          /\ calls[c].take_profit_order.status = "FILLED"
          /\ IsNone(calls[c].stop_loss_order)

get_unfilled_tpsl_orders ==
  {c \in TpslRows : /\ calls[c].open_order.status = "FILLED"
                    /\ \/ calls[c].take_profit_order.status # "FILLED"
                       \/ calls[c].stop_loss_order.status # "FILLED"}

\* a handler goes on to the next leg of call c
Stage(c, stage, ev) ==
  /\ pc' = pc
  /\ todo' = todo
  /\ cur' = [call |-> c, stage |-> stage]
  /\ last' = ev
  /\ UNCHANGED locals

\* update_tp_sl_order_status(trade): the take-profit half
update_tp_order_status(c) ==
  /\ pc = "update_tpsl"
  /\ todo # {}
  /\ c = Max(todo)
  /\ cur = NoCur
  /\ LET ev == Event("update_tp_order_status", c)
     IN \/ /\ Abort(ev)                       \* query_order raises
           /\ UNCHANGED <<calls, venue>>
        \/ \E s \in VenueNext(venue[c].tp) :
             IF s # calls[c].take_profit_order.status
                THEN \/ /\ venue' = [venue EXCEPT ![c].tp = s]
                        /\ calls' = [calls EXCEPT
                               ![c].take_profit_order.status = s,
                               ![c].completed =
                                  ClosedAfterRefresh(calls[c].completed, s)]
                        /\ Stage(c, "sl", [ev EXCEPT !.status = s, !.stored = TRUE])
                     \/ /\ Abort(ev)   \* commit raises
                        /\ UNCHANGED <<calls, venue>>
                ELSE /\ UNCHANGED <<calls, venue>>
                     /\ Stage(c, "sl", [ev EXCEPT !.status = s])
  /\ UNCHANGED <<engine, orRaises, now>>

\* update_tp_sl_order_status(trade): the stop-loss half
update_sl_order_status(c) ==
  /\ pc = "update_tpsl"
  /\ cur = [call |-> c, stage |-> "sl"]
  /\ LET ev == Event("update_sl_order_status", c)
     IN \/ /\ Abort(ev)                       \* query_order raises
           /\ UNCHANGED <<calls, venue>>
        \/ /\ ~IsNone(calls[c].stop_loss_order)
           /\ \E s \in VenueNext(venue[c].sl) :
                IF s # calls[c].stop_loss_order.status
                   THEN \/ /\ venue' = [venue EXCEPT ![c].sl = s]
                           /\ calls' = [calls EXCEPT
                                  ![c].stop_loss_order.status = s,
                                  ![c].completed =
                                     ClosedAfterRefresh(calls[c].completed, s)]
                           /\ Done(c, [ev EXCEPT !.status = s, !.stored = TRUE])
                        \/ /\ Abort(ev)   \* commit raises
                           /\ UNCHANGED <<calls, venue>>
                   ELSE /\ UNCHANGED <<calls, venue>>
                        /\ Done(c, [ev EXCEPT !.status = s])
  /\ UNCHANGED <<engine, orRaises, now>>

\* ---------------------------------------------------------- futures: expiry

\* what the futures send_cancel_open_orders stores once cancel_order has returned
FuturesClosedAsExpiredEntry(row) ==
  [row EXCEPT !.open_order.status = "CANCELED", !.completed = TRUE]

\* futures send_cancel_open_orders(trades): one trade of the loop
futures_send_cancel_open_order(c) ==
  /\ engine = "futures"
  /\ pc = "cancel_open"
  /\ todo # {}
  /\ c = Max(todo)
  /\ \E r \in CancelOutcomes(venue[c].open) :
       LET ev == [Event("send_cancel_open_orders", c) EXCEPT
                    !.status = r.status,
                    !.cancel = IF r.ok THEN "ok" ELSE "raised"]
       IN /\ venue' = [venue EXCEPT ![c].open = r.status]
          /\ \/ /\ r.ok
                /\ calls' = [calls EXCEPT
                               ![c] = FuturesClosedAsExpiredEntry(calls[c])]
                /\ Done(c, [ev EXCEPT !.stored = TRUE])
             \/ /\ UNCHANGED calls            \* cancel_order or commit raises
                /\ Done(c, ev)
  /\ UNCHANGED <<engine, orRaises, now>>

filter_expired_tpsl_orders(trades, max_expiry_hours) ==
  IF \E c \in trades : /\ calls[c].take_profit_order.status = "NEW"
                       /\ IsNone(calls[c].stop_loss_order)
  THEN {}
  ELSE {c \in trades :
          /\ calls[c].take_profit_order.status = "NEW"
          /\ calls[c].stop_loss_order.status = "NEW"
          /\ now - calls[c].take_profit_order.time > max_expiry_hours}

\* send_cancel_tpsl_orders_and_close_position: cancel the take-profit leg
cancel_take_profit_leg(c) ==
  /\ pc = "cancel_tpsl"
  /\ todo # {}
  /\ c = Max(todo)
  /\ cur = NoCur
  /\ \E r \in CancelOutcomes(venue[c].tp) :
       LET ev == [Event("cancel_take_profit_leg", c) EXCEPT !.status = r.status]
       IN /\ venue' = [venue EXCEPT ![c].tp = r.status]
          /\ \/ /\ r.ok
                /\ calls' = [calls EXCEPT
                               ![c].take_profit_order.status = "CANCELED"]
                /\ Stage(c, "sl", [ev EXCEPT !.stored = TRUE])
             \/ /\ UNCHANGED calls            \* cancel_order or commit raises
                /\ Stage(c, "sl", ev)
  /\ UNCHANGED <<engine, orRaises, now>>

\* send_cancel_tpsl_orders_and_close_position: cancel the stop-loss leg
cancel_stop_loss_leg(c) ==
  /\ pc = "cancel_tpsl"
  /\ cur = [call |-> c, stage |-> "sl"]
  /\ \E r \in CancelOutcomes(venue[c].sl) :
       LET ev == [Event("cancel_stop_loss_leg", c) EXCEPT !.status = r.status]
       IN /\ venue' = [venue EXCEPT ![c].sl = r.status]
          /\ \/ /\ r.ok
                /\ calls' = [calls EXCEPT
                               ![c].stop_loss_order.status = "CANCELED"]
                /\ Stage(c, "market", [ev EXCEPT !.stored = TRUE])
             \/ /\ UNCHANGED calls            \* cancel_order or commit raises
                /\ Stage(c, "market", ev)
  /\ UNCHANGED <<engine, orRaises, now>>

\* send_cancel_tpsl_orders_and_close_position: the MARKET order
close_position(c) ==
  /\ pc = "cancel_tpsl"
  /\ cur = [call |-> c, stage |-> "market"]
  /\ LET ev == Event("close_position", c)
         sent == [ev EXCEPT !.placed = TRUE, !.type = "MARKET"]
     IN \/ /\ UNCHANGED calls                 \* new_order raises
           /\ Done(c, ev)
        \/ /\ UNCHANGED calls                 \* commit raises
           /\ Done(c, sent)
        \/ /\ calls' = [calls EXCEPT ![c].completed = TRUE]
           /\ Done(c, [sent EXCEPT !.stored = TRUE])
  /\ UNCHANGED <<engine, orRaises, venue, now>>

\* ----------------------------------------------------- futures: new entries

\* the test of filter_viable_trades (futures)
FuturesViable(current_price) ==
  entry[0] <= current_price /\ current_price <= entry[1]

\* the guard of send_open_position
OpenPositionGuard(row) == IsNone(row.open_order)

\* filter_viable_trades + send_open_position up to the entry order
send_open_position(c) ==
  /\ engine = "futures"
  /\ pc = "entries"
  /\ todo # {}
  /\ c = Max(todo)
  /\ cur = NoCur
  /\ LET ev == Event("send_open_position", c)
         skip(e) == pc' = pc /\ todo' = todo \ {c} /\ cur' = NoCur /\ last' = e
         go(e) == pc' = pc /\ todo' = todo /\ last' = e
                    /\ cur' = [call |-> c, stage |-> "sl"]
     IN \/ /\ Abort(ev)                       \* mark_price raises
           /\ UNCHANGED <<calls, venue>>
        \/ \E current_price \in Prices :
             LET evp == [ev EXCEPT !.price = current_price]
                 sent == [evp EXCEPT !.placed = TRUE, !.type = "LIMIT"]
             IN IF ~FuturesViable(current_price) \/ ~OpenPositionGuard(calls[c])
                THEN /\ skip(evp)
                     /\ UNCHANGED <<calls, venue>>
                     /\ UNCHANGED locals
                ELSE \/ /\ Abort(evp)         \* exchange_info raises
                        /\ UNCHANGED <<calls, venue>>
                     \/ /\ go(evp)            \* new_order raises
                        /\ EntrySubmitted
                        /\ UNCHANGED <<calls, venue>>
                     \/ /\ go(sent)           \* query_order or commit raises
                        /\ EntrySubmitted
                        /\ venue' = [venue EXCEPT ![c].open = "NEW"]
                        /\ UNCHANGED calls
                     \/ \E s \in VenueNext("NEW") :
                          /\ go([sent EXCEPT !.status = s, !.stored = TRUE])
                          /\ EntrySubmitted
                          /\ calls' = [calls EXCEPT ![c].open_order =
                                         [status |-> s, time |-> now,
                                          type |-> "LIMIT"]]
                          /\ venue' = [venue EXCEPT ![c].open = s]
  /\ UNCHANGED <<engine, orRaises, now>>

\* send_open_position: the stop-loss order
open_stop_loss_leg(c) ==
  /\ pc = "entries"
  /\ cur = [call |-> c, stage |-> "sl"]
  /\ LET ev == Event("open_stop_loss_leg", c)
         sent == [ev EXCEPT !.placed = TRUE, !.type = "STOP"]
     IN \/ /\ Stage(c, "tp", ev)              \* new_order raises
           /\ UNCHANGED <<calls, venue>>
        \/ /\ Stage(c, "tp", sent)            \* query_order or commit raises
           /\ UNCHANGED <<calls, venue>>
        \/ \E s \in VenueNext("NEW") :
             /\ Stage(c, "tp", [sent EXCEPT !.status = s, !.stored = TRUE])
             /\ calls' = [calls EXCEPT ![c].stop_loss_order =
                            [status |-> s, time |-> 0, type |-> "STOP"]]
             /\ venue' = [venue EXCEPT ![c].sl = s]
  /\ UNCHANGED <<engine, orRaises, now>>

\* send_open_position: the take-profit order
open_take_profit_leg(c) ==
  /\ pc = "entries"
  /\ cur = [call |-> c, stage |-> "tp"]
  /\ LET ev == Event("open_take_profit_leg", c)
         sent == [ev EXCEPT !.placed = TRUE, !.type = "TAKE_PROFIT"]
     IN \/ /\ Done(c, ev)                     \* new_order raises
           /\ UNCHANGED <<calls, venue>>
        \/ /\ Done(c, sent)                   \* query_order or commit raises
           /\ UNCHANGED <<calls, venue>>
        \/ \E s \in VenueNext("NEW") :
             /\ Done(c, [sent EXCEPT !.status = s, !.stored = TRUE])
             /\ calls' = [calls EXCEPT ![c].take_profit_order =
                            [status |-> s, time |-> now, type |-> "TAKE_PROFIT"]]
             /\ venue' = [venue EXCEPT ![c].tp = s]
  /\ UNCHANGED <<engine, orRaises, now>>

\* ------------------------------------------------------- the body of step()

\* the phases of step(), in the order of its statements
StepPhases ==
  IF engine = "spot"
  THEN <<"start", "update_open", "update_close", "send_close", "cancel_open",
         "cancel_close", "stop_loss_filter", "stop_loss", "account">>
  ELSE <<"start", "update_open", "update_tpsl", "cancel_open", "cancel_tpsl",
         "account">>

\* the list step() hands to the handler of a phase
PhaseWork(phase) ==
  IF engine = "spot"
  THEN CASE phase = "update_open" -> get_pending_opening_limit_orders
         [] phase = "update_close" -> get_pending_closing_limit_orders
         [] phase = "send_close" ->
              filter_filled_opening_orders(get_pending_opening_limit_orders)
         [] phase = "cancel_open" ->
              filter_expired_open_orders(get_pending_opening_limit_orders,
                                         ORDER_EXPIRY_TIME_HOURS)
         [] phase = "cancel_close" ->
              filter_expired_close_orders(get_pending_closing_limit_orders,
                                          ORDER_EXPIRY_TIME_HOURS)
         [] phase = "stop_loss_filter" -> get_pending_closing_limit_orders
         [] phase = "stop_loss" -> found
         [] OTHER -> {}
  ELSE CASE phase = "update_open" -> get_unfilled_opening_orders
         [] phase = "update_tpsl" -> get_unfilled_tpsl_orders
         [] phase = "cancel_open" ->
              filter_expired_open_orders(get_unfilled_opening_orders,
                                         FUTURES_ORDER_EXPIRY_TIME_HOURS)
         [] phase = "cancel_tpsl" ->
              filter_expired_tpsl_orders(get_unfilled_tpsl_orders,
                                         FUTURES_ORDER_EXPIRY_TIME_HOURS)
         [] OTHER -> {}

\* the query of a phase raises
PhaseRaises(phase) ==
  engine = "futures" /\ phase \in {"update_tpsl", "cancel_tpsl"} /\ TpslRaises

PhaseIndex(phase) == CHOOSE i \in DOMAIN StepPhases : StepPhases[i] = phase

\* the first phase after index i whose query raises or whose list is not
\* empty; the phases in between do nothing
RECURSIVE NextWork(_)
NextWork(i) ==
  LET phase == StepPhases[i + 1]
  IN IF phase = "account" \/ PhaseRaises(phase) \/ PhaseWork(phase) # {}
     THEN phase
     ELSE NextWork(i + 1)

\* step() between two handlers: the queries and filters up to the next
\* handler that has a call to work on
NextPhase ==
  /\ pc \in {StepPhases[i] : i \in DOMAIN StepPhases} \ {"account"}
  /\ todo = {}
  /\ cur = NoCur
  /\ LET phase == NextWork(PhaseIndex(pc))
     IN IF PhaseRaises(phase)
        THEN Abort(Event("get_unfilled_tpsl_orders", 0))
        ELSE /\ pc' = phase
             /\ todo' = PhaseWork(phase)
             /\ cur' = NoCur
             /\ last' = Event("phase", 0)
             /\ found' = IF phase = "stop_loss" THEN found ELSE {}
             /\ UNCHANGED <<stepBalance, stepEntries>>
  /\ UNCHANGED <<engine, orRaises, calls, venue, now>>

Next ==
  \/ StartStep
  \/ NextPhase
  \/ \E c \in Calls : update_opening_order_status(c)
  \/ \E c \in Calls : update_closing_order_status(c)
  \/ \E c \in Calls : send_close_order(c)
  \/ \E c \in Calls : send_cancel_open_order(c)
  \/ \E c \in Calls : send_cancel_close_order(c)
  \/ \E c \in Calls : filter_need_to_stop_loss(c)
  \/ ReadBalance
  \/ \E c \in Calls : send_open_order(c)
  \/ EndStep
  \/ \E c \in Calls : update_tp_order_status(c)
  \/ \E c \in Calls : update_sl_order_status(c)
  \/ \E c \in Calls : futures_send_cancel_open_order(c)
  \/ \E c \in Calls : cancel_take_profit_leg(c)
  \/ \E c \in Calls : cancel_stop_loss_leg(c)
  \/ \E c \in Calls : close_position(c)
  \/ \E c \in Calls : send_open_position(c)
  \/ \E c \in Calls : open_stop_loss_leg(c)
  \/ \E c \in Calls : open_take_profit_leg(c)

Spec == Init /\ [][Next]_vars

\* ------------------------------------------------------------------ claims

EntryOps == {"send_open_order", "send_open_position"}

\* C1: for every call at most one entry order is ever placed on the exchange:
\* an entry order is accepted for a call only while the exchange has had no
\* entry order of that call
C1_AtMostOneEntry ==
  [][\A c \in Calls :
       (last'.op \in EntryOps /\ last'.call = c /\ last'.placed /\ pc = "entries")
         => venue[c].open = "none"]_vars

\* C2: the closed flag is monotonic: no operation of any step stores false over
\* a stored true
C2_ClosedMonotonic ==
  [][\A c \in Calls : calls[c].completed => calls'[c].completed]_vars

\* a refresh has stored a status that is not FILLED for a call already closed
C2_Witness ==
  /\ last.op = "update_sl_order_status"
  /\ last.stored
  /\ last.status # "FILLED"
  /\ calls[last.call].take_profit_order.status = "FILLED"
  /\ calls[last.call].completed

\* C3: an entry order is placed for a call only if the price reported during
\* the viability check of that step lies inside the entry range of the call
C3_EntryRangeGate ==
  (last.op \in EntryOps /\ last.placed)
    => (entry[0] <= last.price /\ last.price <= entry[1])

\* C4: in a single step the number of entry orders submitted never exceeds
\* floor(availableBalance / ORDER_SIZE) of the balance read in that step
C4_BalanceCap ==
  pc = "entries" => stepEntries * ORDER_SIZE <= stepBalance

\* the balance pays for one entry, it has been placed, and another unseen call
\* of this step's lookback window is left without an order
C4_Witness ==
  /\ pc = "entries"
  /\ todo = {}
  /\ stepEntries >= 1
  /\ (stepEntries + 1) * ORDER_SIZE > stepBalance
  /\ last.op \in EntryOps /\ last.placed /\ last.stored
  /\ \E c \in fetch_unseen_trades(NumCalls) : calls[c].side = "BUY"

\* C5: a call the stop-loss check of a step has found is acted on in that same
\* step: the step does not end between the check that found it and the
\* cancellation and MARKET order for it
C5_StopLossPreemption ==
  [][(pc = "stop_loss_filter" /\ found # {}) => pc' # "sleep"]_vars

\* C6: the expiry of an entry order cancels it and stores closed = true with
\* the closing reason "entry order expired"
C6_EntryExpiry ==
  last.op = "send_cancel_open_orders"
    => /\ last.cancel = "ok"
       /\ calls[last.call].completed
       /\ calls[last.call].reason = "entry order expired"

\* C7: a failure of cancelOrder for an expired entry order does not block
\* closing: the call is marked closed in that step
C7_CancelFailureStillCloses ==
  (last.op = "send_cancel_open_orders" /\ last.cancel = "raised")
    => calls[last.call].completed

\* C8: no failure of an external call aborts a step of the spot engine
C8_FailureIsolation ==
  engine = "spot" => ~last.raised

\* C9: when the exit-status refresh is answered FILLED for a call that is not
\* closed, the step stores closed = true for it
C9_NormalClose ==
  (last.op = "update_closing_order_status" /\ ~last.raised
     /\ last.status = "FILLED")
    => calls[last.call].completed

\* C10 as stated: the exit is a MARKET order when the price is greater than
\* targets[3], otherwise a LIMIT order
C10_ExitByTarget ==
  (last.op = "send_close_order" /\ last.placed)
    => last.type = (IF last.price > targets[TARGET_NUM] THEN "MARKET" ELSE "LIMIT")

\* C10: send_close_order acts on a call whose entry order is stored FILLED; it
\* compares the price with targets[3] truncated to the tick precision, places
\* a MARKET order when the price is greater and a LIMIT order otherwise, and
\* when nothing raises stores the answer as close_order; when something
\* raises the row keeps no exit order
C10_ExitByTruncatedTarget ==
  last.op = "send_close_order"
    => /\ calls[last.call].open_order.status = "FILLED"
       /\ \E prec \in Precisions :
            last.target = round_down_to_precision(targets[TARGET_NUM], prec)
       /\ last.placed
            => last.type = (IF last.price > last.target THEN "MARKET" ELSE "LIMIT")
       /\ last.stored
            => /\ last.placed
               /\ calls[last.call].close_order =
                    [status |-> last.status, time |-> now, type |-> last.type]
       /\ ~last.stored => IsNone(calls[last.call].close_order)

\* a MARKET exit has been stored at a price below targets[3]
C10_Witness ==
  /\ last.op = "send_close_order"
  /\ last.stored
  /\ last.type = "MARKET"
  /\ last.price < targets[TARGET_NUM]

\* C11: the loop of main() never ends because a step failed: after a step that
\* raised, the engine is asleep and the next step can be invoked
C11_SchedulerResilience ==
  last.raised => (pc = "sleep" /\ ENABLED StartStep)

\* a step has raised after earlier gateway calls of the same step had answered
C11_Witness ==
  /\ last.raised
  /\ last.op = "filter_need_to_stop_loss"
  /\ pc = "sleep"

\* C12: in the spot engine a call with a close_order has a stored open_order
\* whose status is FILLED
C12_ExitOnlyAfterEntryFilled ==
  engine = "spot"
    => \A c \in Calls :
         ~IsNone(calls[c].close_order) => calls[c].open_order.status = "FILLED"

\* an exit order has just been stored for a call
C12_Witness ==
  /\ engine = "spot"
  /\ last.op = "send_close_order"
  /\ last.stored
  /\ ~IsNone(calls[last.call].close_order)

\* C13 (the part about an entry order that has not been placed): no STOP or
\* TAKE_PROFIT order is placed for a call that has no stored entry order
C13_LegsOnlyAfterEntry ==
  (last.op \in {"open_stop_loss_leg", "open_take_profit_leg"} /\ last.placed)
    => ~IsNone(calls[last.call].open_order)

\* C14: a futures call whose flattening has failed stays selected for
\* flattening: after a MARKET close that left the call open, the call is
\* still one filter_expired_tpsl_orders returns
C14_FlattenIsRetried ==
  (last.op = "close_position" /\ ~calls[last.call].completed)
    => last.call \in filter_expired_tpsl_orders(get_unfilled_tpsl_orders,
                                                FUTURES_ORDER_EXPIRY_TIME_HOURS)

\* C15: an expired exit order whose retirement failed after the cancel request
\* went through is, after the next status refresh, closed or still selected
\* for retirement
C15_ExitExpiryIsRetried ==
  [][\A c \in Calls :
       (/\ pc = "update_close"
        /\ last'.op = "update_closing_order_status"
        /\ last'.call = c
        /\ ~last'.raised
        /\ venue[c].close = "CANCELED"
        /\ c \in filter_expired_close_orders({c}, ORDER_EXPIRY_TIME_HOURS))
         => (calls'[c].completed \/ calls'[c].close_order.status = "NEW")]_vars

\* C16: a call has a closing reason exactly when it is closed
C16_ReasonIffClosed ==
  \A c \in Calls : calls[c].completed <=> calls[c].reason # "null"

\* C17 as stated: once a call is closed, no gateway operation is issued for it
\* and no field of it is written
C17_ClosedIsImmutable ==
  [][\A c \in Calls :
       calls[c].completed => (last'.call # c /\ calls'[c] = calls[c])]_vars

\* the stop-loss half of update_tp_sl_order_status acts on call c, which only
\* changes the stored stop-loss order
StopLossRefreshOf(c) ==
  /\ engine = "futures"
  /\ pc = "update_tpsl"
  /\ cur = [call |-> c, stage |-> "sl"]
  /\ last'.op = "update_sl_order_status"
  /\ calls'[c] = [calls[c] EXCEPT !.stop_loss_order = calls'[c].stop_loss_order]

\* C17: once a call is closed no gateway operation is issued for it and no
\* field of it is written, except that the futures status refresh which has
\* just closed it by its take-profit fill still queries its stop-loss order
\* and may store that order's status
C17_ClosedIsImmutableButStopLossRefresh ==
  [][\A c \in Calls :
       calls[c].completed
         => \/ last'.call # c /\ calls'[c] = calls[c]
            \/ StopLossRefreshOf(c)]_vars

\* a closed spot call is passed over by a later step that refreshes another
\* call's exit order
C17_Witness ==
  /\ engine = "spot"
  /\ last.op = "update_closing_order_status"
  /\ \E c \in Calls : c # last.call /\ calls[c].completed
                                   /\ ~IsNone(calls[c].close_order)

\* the commit of send_close_order has raised: the order was placed and the
\* answer is not stored
CloseOrderCommitRaised ==
  last.op = "send_close_order" /\ last.placed /\ ~last.stored

\* C18: a store write failure propagates out of the step
C18_StoreFailureIsFatal ==
  CloseOrderCommitRaised => (last.raised /\ pc = "sleep")

\* C19: an entry order is placed only for a call that, in that step, has no
\* stored entry order, is not bragged and was created within the lookback
\* window
C19_EntryEligibility ==
  [][(pc = "entries" /\ last'.op \in EntryOps /\ last'.placed)
       => /\ IsNone(calls[last'.call].open_order)
          /\ ~calls[last'.call].bragged
          /\ calls[last'.call].timestamp >= now - LOOKBACK_HOURS]_vars

\* an entry order has been placed for one call while the other call, bragged
\* and without an order, has been left alone
C19_Witness ==
  /\ last.op \in EntryOps
  /\ last.placed
  /\ \E c \in Calls : /\ c # last.call
                      /\ calls[c].bragged
                      /\ IsNone(calls[c].open_order)
                      /\ venue[c].open = "none"

\* C20 as stated: in both engines a call whose side is SELL never gets an
\* entry order
C20_OnlyBuyEntries ==
  \A c \in Calls :
    calls[c].side = "SELL"
      => (IsNone(calls[c].open_order) /\ venue[c].open = "none")

\* C20: in the spot engine a call whose side is SELL never gets an entry order
\* (the futures engine places entry orders for SELL calls as for BUY calls)
C20_OnlyBuyEntriesInSpot ==
  engine = "spot"
    => /\ C20_OnlyBuyEntries
       /\ (last.op = "send_open_order" /\ last.placed)
            => calls[last.call].side = "BUY"

\* send_open_order has been handed a SELL call at a viable price
C20_Witness ==
  /\ engine = "spot"
  /\ last.op = "send_open_order"
  /\ calls[last.call].side = "SELL"
  /\ Viable(last.price)

\* C21 (its consequence for a state): a call that has an entry order and is
\* not closed is never left with an entry order whose stored status is
\* terminal and not FILLED, which no handler of any later step acts on
C21_NoDeadEntry ==
  \A c \in Calls :
    (~calls[c].completed /\ ~IsNone(calls[c].open_order))
      => calls[c].open_order.status \in {"NEW", "FILLED"}

\* the calls without a stored entry order, not bragged, inside the lookback
\* window
EligibleForEntry ==
  {c \in Calls : /\ IsNone(calls[c].open_order)
                 /\ ~calls[c].bragged
                 /\ now - calls[c].timestamp <= LOOKBACK_HOURS}

\* T is the k highest ids of E, or all of E when E has fewer than k
HighestOf(T, k, E) ==
  /\ T \subseteq E
  /\ Cardinality(T) = (IF Cardinality(E) < k THEN Cardinality(E) ELSE k)
  /\ \A c \in T, d \in E \ T : d < c

\* C22: the calls considered for entry in a step are exactly the
\* k = floor(balance / ORDER_SIZE) highest-id eligible calls, and no entry
\* order is placed in that step for a call outside them
C22_TopKHardCap ==
  [][/\ (pc = "account" /\ pc' = "entries")
          => HighestOf(todo', stepBalance' \div ORDER_SIZE, EligibleForEntry)
     /\ (pc = "entries" /\ pc' = "entries")
          => /\ todo' \subseteq todo
             /\ last'.op \in EntryOps => last'.call \in todo]_vars

\* with k = 1 the highest-id call has failed the price gate and the step has
\* left the other eligible call alone
C22_Witness ==
  /\ pc = "entries"
  /\ todo = {}
  /\ stepBalance \div ORDER_SIZE = 1
  /\ stepEntries = 0
  /\ last.op \in EntryOps
  /\ ~last.placed
  /\ last.price > targets[2]
  /\ \E d \in EligibleForEntry : d < last.call

\* send_open_order has attempted an entry for a call and a gateway call of the
\* attempt (exchange_info, new_order or the confirming get_order) or the
\* commit has raised
EntryAttemptFailed ==
  /\ engine = "spot"
  /\ pc = "entries"
  /\ last'.op = "send_open_order"
  /\ ~last'.raised
  /\ ~last'.stored
  /\ Viable(last'.price)
  /\ OpenOrderGuard(calls[last'.call])

\* C23: a failed entry attempt of the spot engine changes no field of any
\* call, leaves open_order null, and the call is one the unseen-call query
\* returns afterwards
C23_FailedEntryLeavesUnseen ==
  [][EntryAttemptFailed
       => /\ calls' = calls
          /\ IsNone(calls'[last'.call].open_order)
          /\ last'.call \in (fetch_unseen_trades(NumCalls))']_vars

\* the venue accepted the entry order and the confirming get_order or the
\* commit raised: the call is still unseen
C23_Witness ==
  /\ engine = "spot"
  /\ last.op = "send_open_order"
  /\ last.placed
  /\ ~last.stored
  /\ IsNone(calls[last.call].open_order)
  /\ last.call \in fetch_unseen_trades(NumCalls)

\* C24: no call has a stop-loss or take-profit order and no entry order
C24_NoLegWithoutEntry ==
  \A c \in Calls :
    (~IsNone(calls[c].stop_loss_order) \/ ~IsNone(calls[c].take_profit_order))
      => ~IsNone(calls[c].open_order)

\* C25: once the exit order of a spot call is stored FILLED, no expiry or
\* stop-loss check submits a further MARKET sell for the call
C25_SoldAtMostOnce ==
  (last.op = "send_cancel_close_orders" /\ last.placed)
    => calls[last.call].close_order.status # "FILLED"

\* C26: a closed call has an entry order, and the unseen-call query returns no
\* closed call
C26_ClosedHasEntry ==
  /\ \A c \in Calls : calls[c].completed => ~IsNone(calls[c].open_order)
  /\ \A c \in fetch_unseen_trades(NumCalls) : ~calls[c].completed

\* the unseen-call query of a step has returned a call while another call is
\* closed
C26_Witness ==
  /\ pc = "entries"
  /\ last.op = "account"
  /\ todo # {}
  /\ \E c \in Calls : calls[c].completed /\ c \notin todo

=============================================================================
